---- MODULE Spec2Model ----
(***************************************************************************)
(* Detect-and-repair loop of vibecherry-app:                               *)
(*   ErrorDetector        (src/src/types/errors.ts, second half)            *)
(*   SelfHealingEngine    (src/src/utils/selfHealing.ts)                    *)
(*   SelfHealingPreview   (src/unnamed/part_000, the React component that   *)
(*                         drives validate -> heal -> re-validate)          *)
(*                                                                         *)
(* Text is modelled as a sequence of lexical tokens.  A token is a record  *)
(* [k, n]: k is "doctype", "open", "close", "text" or "fence", n the tag    *)
(* name or the text run.  Every test the code makes on a string            *)
(* (includes, the tag regexes, length) is computed on the tokens.           *)
(***************************************************************************)
EXTENDS Integers, Sequences, FiniteSets, TLC

(***************************************************************************)
(* Bounds of the model (not program constants).                            *)
(***************************************************************************)
MaxErrorLog == 1      \* runtime defects the buffer may hold at once
MaxOrdinal == 6       \* largest ordinal a direct caller of healCode passes
MaxApiCalls == 2      \* healCode calls a direct caller makes on one engine
MaxClock == 1         \* largest reading of the clock
MaxClears == 1        \* clearHistory calls a direct caller makes on one engine
MaxAttach == 2        \* monitorIframe calls a direct caller makes on one detector
MaxBody == 3          \* tokens between <body> and </body> of a checked document
MaxUnheard == 1       \* error events a document raises before its load event

(***************************************************************************)
(* Tokens.                                                                 *)
(***************************************************************************)
Doctype == [k |-> "doctype", n |-> "<!DOCTYPE html>"]
Open(name) == [k |-> "open", n |-> name]
Close(name) == [k |-> "close", n |-> name]
Text(s) == [k |-> "text", n |-> s]
\* the three backticks followed by html and a newline, and three backticks alone
FenceOpen == [k |-> "fence", n |-> "fence html newline"]
FenceClose == [k |-> "fence", n |-> "fence"]

\* number of characters of a tag name or of a text run
StrLen(s) ==
  CASE s = "html" -> 4
    [] s = "head" -> 4
    [] s = "body" -> 4
    [] s = "div" -> 3
    [] s = "p" -> 1
    [] s = "br" -> 2
    [] s = "script" -> 6
    [] s = "span" -> 4
    [] s = "x" -> 1
    [] s = "{" -> 1
    [] s = "}" -> 1
    [] s = "(" -> 1
    [] s = ")" -> 1
    [] s = "function (" -> 10
    [] s = "Hello from the generated page." -> 30
    [] s = "fence html newline" -> 8
    [] s = "fence" -> 3
    [] s = "<!DOCTYPE html>" -> 15
    [] OTHER -> 1

\* number of characters of one token: <name> is name+2, </name> is name+3
TokLen(t) ==
  CASE t.k = "open" -> StrLen(t.n) + 2
    [] t.k = "close" -> StrLen(t.n) + 3
    [] OTHER -> StrLen(t.n)

RECURSIVE CodeLength(_)
\* code.length
CodeLength(code) ==
  IF code = <<>> THEN 0 ELSE TokLen(Head(code)) + CodeLength(Tail(code))

\* Array.prototype.lastIndexOf, 1-based, 0 when absent
LastIndexOf(s, x) ==
  IF \E i \in 1..Len(s) : s[i] = x
  THEN CHOOSE i \in 1..Len(s) : s[i] = x /\ \A j \in (i+1)..Len(s) : s[j] # x
  ELSE 0

\* Array.prototype.splice(i, 1), 1-based
RemoveAt(s, i) == SubSeq(s, 1, i - 1) \o SubSeq(s, i + 1, Len(s))

RECURSIVE Count(_, _)
\* number of tokens of a sequence that are in the set S
Count(s, S) ==
  IF s = <<>> THEN 0
  ELSE (IF Head(s) \in S THEN 1 ELSE 0) + Count(Tail(s), S)

(***************************************************************************)
(* DetectedError.                                                          *)
(* message is the fixed part of the message text, tags and nums the tag     *)
(* names and the counts interpolated into it, timestamp the reading of      *)
(* Date.now() when the record is made.                                      *)
(***************************************************************************)
VARIABLE now       \* Date.now()

Defect(type, message, tags, nums) ==
  [type |-> type, message |-> message, tags |-> tags, nums |-> nums,
   timestamp |-> now]

IncompleteCodeError ==
  Defect("incomplete_code", "Code appears to be incomplete or malformed", <<>>, <<>>)

(***************************************************************************)
(* ErrorDetector.detectSyntaxErrors                                        *)
(***************************************************************************)
VoidTags == {"br", "hr", "img", "input", "meta", "link"}

HasDoctype(code) == \E i \in 1..Len(code) : code[i] = Doctype
HasHtmlOpen(code) == \E i \in 1..Len(code) : code[i] = Open("html")
HasHtmlClose(code) == \E i \in 1..Len(code) : code[i] = Close("html")
HasBodyOpen(code) == \E i \in 1..Len(code) : code[i] = Open("body")

RECURSIVE CollectOpenTags(_)
\* first loop: every opening tag that is not a void tag, in text order
CollectOpenTags(code) ==
  IF code = <<>> THEN <<>>
  ELSE LET t == Head(code)
       IN  (IF t.k = "open" /\ t.n \notin VoidTags THEN <<t.n>> ELSE <<>>)
           \o CollectOpenTags(Tail(code))

RECURSIVE MatchClosingTagsSpliceAll(_, _, _)
\* the second loop with splice(lastOpen) in place of splice(lastOpen, 1):
\* a matched closing tag removes every tag collected after its opening tag
MatchClosingTagsSpliceAll(code, openTags, errs) ==
  IF code = <<>> THEN [openTags |-> openTags, errors |-> errs]
  ELSE LET t == Head(code)
       IN  IF t.k # "close"
           THEN MatchClosingTagsSpliceAll(Tail(code), openTags, errs)
           ELSE LET lastOpen == LastIndexOf(openTags, t.n)
                IN  IF lastOpen = 0
                    THEN MatchClosingTagsSpliceAll(Tail(code), openTags,
                           Append(errs, Defect("syntax_error", "Unexpected closing tag", <<t.n>>, <<>>)))
                    ELSE MatchClosingTagsSpliceAll(Tail(code), SubSeq(openTags, 1, lastOpen - 1), errs)

RECURSIVE MatchClosingTags(_, _, _)
\* second loop: every closing tag, in text order, against the collected list
MatchClosingTags(code, openTags, errs) ==
  IF code = <<>> THEN [openTags |-> openTags, errors |-> errs]
  ELSE LET t == Head(code)
       IN  IF t.k # "close"
           THEN MatchClosingTags(Tail(code), openTags, errs)
           ELSE LET lastOpen == LastIndexOf(openTags, t.n)
                IN  IF lastOpen = 0
                    THEN MatchClosingTags(Tail(code), openTags,
                           Append(errs, Defect("syntax_error", "Unexpected closing tag", <<t.n>>, <<>>)))
                    ELSE MatchClosingTags(Tail(code), RemoveAt(openTags, lastOpen), errs)

\* index of the first token equal to t at or after position from, 0 if none
IndexFrom(code, t, from) ==
  IF \E i \in from..Len(code) : code[i] = t
  THEN CHOOSE i \in from..Len(code) : code[i] = t /\ \A j \in from..(i-1) : code[j] # t
  ELSE 0

RECURSIVE ScriptMatches(_, _)
\* code.match(/<script[^>]*>([\s\S]*?)<\/script>/gi): the bodies of the
\* script regions, leftmost first, each ending at the nearest </script>
ScriptMatches(code, from) ==
  LET i == IndexFrom(code, Open("script"), from)
      j == IF i = 0 THEN 0 ELSE IndexFrom(code, Close("script"), i + 1)
  IN  IF i = 0 \/ j = 0 THEN <<>>
      ELSE <<SubSeq(code, i + 1, j - 1)>> \o ScriptMatches(code, j + 1)

\* the three checks made on one script body
ScriptErrors(jsCode) ==
  LET openBraces == Count(jsCode, {Text("{")})
      closeBraces == Count(jsCode, {Text("}")})
      openParens == Count(jsCode, {Text("("), Text("function (")})
      closeParens == Count(jsCode, {Text(")")})
  IN  (IF Count(jsCode, {Text("function (")}) > 0 /\ closeParens = 0
       THEN <<Defect("syntax_error", "Incomplete function declaration", <<>>, <<>>)>>
       ELSE <<>>)
      \o (IF openBraces # closeBraces
          THEN <<Defect("syntax_error", "Unmatched braces", <<>>, <<openBraces, closeBraces>>)>>
          ELSE <<>>)
      \o (IF openParens # closeParens
          THEN <<Defect("syntax_error", "Unmatched parentheses", <<>>, <<openParens, closeParens>>)>>
          ELSE <<>>)

RECURSIVE AllScriptErrors(_)
AllScriptErrors(scripts) ==
  IF scripts = <<>> THEN <<>>
  ELSE ScriptErrors(Head(scripts)) \o AllScriptErrors(Tail(scripts))

detectSyntaxErrors(code) ==
  LET matched == MatchClosingTags(code, CollectOpenTags(code), <<>>)
  IN  (IF ~HasDoctype(code)
       THEN <<Defect("syntax_error", "Missing DOCTYPE declaration", <<>>, <<>>)>> ELSE <<>>)
      \o (IF ~HasHtmlOpen(code)
          THEN <<Defect("syntax_error", "Missing <html> tag", <<>>, <<>>)>> ELSE <<>>)
      \o (IF ~HasHtmlClose(code)
          THEN <<Defect("incomplete_code", "Missing closing </html> tag", <<>>, <<>>)>> ELSE <<>>)
      \o matched.errors
      \o (IF matched.openTags # <<>>
          THEN <<Defect("syntax_error", "Unclosed tags", matched.openTags, <<>>)>> ELSE <<>>)
      \o AllScriptErrors(ScriptMatches(code, 1))
      \o (IF ~HasHtmlClose(code)
          THEN <<Defect("incomplete_code", "HTML document appears incomplete (missing </html>)", <<>>, <<>>)>>
          ELSE <<>>)
      \o (IF ~HasDoctype(code)
          THEN <<Defect("syntax_error", "Missing DOCTYPE declaration", <<>>, <<>>)>> ELSE <<>>)
      \o (IF ~HasHtmlOpen(code)
          THEN <<Defect("syntax_error", "Missing <html> tag", <<>>, <<>>)>> ELSE <<>>)
      \o (IF ~HasBodyOpen(code)
          THEN <<Defect("syntax_error", "Missing <body> tag", <<>>, <<>>)>> ELSE <<>>)

(***************************************************************************)
(* SelfHealingEngine: pure parts.                                          *)
(***************************************************************************)
maxAttempts == 5

\* the length below which validateAndHeal takes the code for malformed
MinCodeLength == 50

\* a selector that looks at the defect kinds on the first attempt
selectStrategyByErrorType(errs, attemptNumber) ==
  IF attemptNumber = 1
  THEN IF \E i \in 1..Len(errs) : errs[i].type = "runtime_error"
       THEN "add_error_handling" ELSE "explain_and_fix"
  ELSE IF attemptNumber = 2 THEN "add_error_handling"
  ELSE IF attemptNumber = 3 THEN "simplify"
  ELSE IF attemptNumber = 4 THEN "use_alternatives"
  ELSE "rebuild_from_scratch"

selectStrategy(errs, attemptNumber) ==
  IF attemptNumber = 1 THEN "explain_and_fix"
  ELSE IF attemptNumber = 2 THEN "add_error_handling"
  ELSE IF attemptNumber = 3 THEN "simplify"
  ELSE IF attemptNumber = 4 THEN "use_alternatives"
  ELSE "rebuild_from_scratch"

\* first line of the instruction block of each strategy
getStrategyInstructions(strategy) ==
  CASE strategy = "explain_and_fix" -> "Analyze each error carefully"
    [] strategy = "add_error_handling" -> "Wrap JavaScript in try-catch blocks"
    [] strategy = "simplify" -> "Remove complex features that might be causing issues"
    [] strategy = "use_alternatives" -> "Try a different technical approach"
    [] strategy = "rebuild_from_scratch" -> "Start fresh with a simpler version"
    [] strategy = "add_fallbacks" -> "Add polyfills for missing features"

\* the variable parts of the prompt template, in the order they appear
buildFixPrompt(originalPrompt, brokenCode, errs, strategy, attemptNumber) ==
  [attemptNumber |-> attemptNumber,
   originalPrompt |-> originalPrompt,
   brokenCode |-> brokenCode,
   errorSummary |-> errs,
   strategy |-> strategy,
   strategyInstructions |-> getStrategyInstructions(strategy)]

\* an extraction that gives the empty string when there is no fenced block
ExtractCodeOrNothing(response) ==
  LET i == IndexFrom(response, FenceOpen, 1)
      closers == IF i = 0 THEN {}
                 ELSE {j \in (i+1)..Len(response) : response[j].k = "fence"}
  IN  IF closers = {} THEN <<>>
      ELSE LET j == CHOOSE c \in closers : \A d \in closers : c <= d
           IN  SubSeq(response, i + 1, j - 1)

\* response.match(/```html\n([\s\S]*?)```/): the text between the first
\* opening fence and the nearest following run of three backticks (an
\* opening fence starts with three backticks too); the whole response when
\* there is no such pair
ExtractCode(response) ==
  LET i == IndexFrom(response, FenceOpen, 1)
      closers == IF i = 0 THEN {}
                 ELSE {j \in (i+1)..Len(response) : response[j].k = "fence"}
  IN  IF closers = {} THEN response
      ELSE LET j == CHOOSE c \in closers : \A d \in closers : c <= d
           IN  SubSeq(response, i + 1, j - 1)

\* the guard off by one: ordinal maxAttempts + 1 is let through
HealCodeRejectsAboveSix(attemptNumber) == attemptNumber > maxAttempts + 1

\* healCode's guard on entry
HealCodeRejects(attemptNumber) == attemptNumber > maxAttempts

\* the locals of one healCode call suspended at the await of requestFix
HealCall(originalPrompt, brokenCode, errs, attemptNumber, caller) ==
  LET strategy == selectStrategy(errs, attemptNumber)
  IN  [attemptNumber |-> attemptNumber,
       strategy |-> strategy,
       fixPrompt |-> buildFixPrompt(originalPrompt, brokenCode, errs, strategy, attemptNumber),
       errors |-> errs,
       caller |-> caller]

\* a record that stores the code sent for repair in place of the code returned
FixAttemptKeepsBrokenCode(call, fixedCode) ==
  [attemptNumber |-> call.attemptNumber,
   strategy |-> call.strategy,
   prompt |-> call.fixPrompt,
   result |-> call.fixPrompt.brokenCode,
   success |-> FALSE,
   errors |-> call.errors]

\* the FixAttempt record pushed when the call resumes with fixedCode
FixAttempt(call, fixedCode) ==
  [attemptNumber |-> call.attemptNumber,
   strategy |-> call.strategy,
   prompt |-> call.fixPrompt,
   result |-> fixedCode,
   success |-> FALSE,
   errors |-> call.errors]

\* the arguments of invoke('generate_vibe_with_healing', ...)
InvokeArgs(fixPrompt, attemptCountNow) ==
  [prompt |-> fixPrompt, is_fix_attempt |-> TRUE, attempt_number |-> attemptCountNow + 1]

\* a marking that flags every attempt instead of the last one
MarkEveryAttempt(history) ==
  [i \in 1..Len(history) |-> [history[i] EXCEPT !.success = TRUE]]

\* markLastAttemptSuccess applied to a history
MarkLast(history) ==
  IF Len(history) > 0
  THEN [history EXCEPT ![Len(history)].success = TRUE]
  ELSE history

getAttemptCount(history) == Len(history)

hasReachedMaxAttempts(history) == Len(history) >= maxAttempts

MaxAttemptsError == [ok |-> FALSE, error |-> "Max healing attempts reached. Code could not be fixed.", value |-> <<>>]
LLMError == [ok |-> FALSE, error |-> "LLM fix request failed", value |-> <<>>]
Fulfilled(code) == [ok |-> TRUE, error |-> "", value |-> code]
NoOutcome == [ok |-> FALSE, error |-> "none", value |-> <<>>]

(***************************************************************************)
(* ErrorDetector.analyzeRenderedOutput                                     *)
(* snap is what the iframe's document looks like when it is inspected.      *)
(* The result says whether the call threw (the promise rejected) and, if    *)
(* not, the list it returned.                                               *)
(***************************************************************************)
Snapshot(hasDocument, bodyNull, bodyEmpty, errorText, failedImages, unstyledMajority) ==
  [hasDocument |-> hasDocument, bodyNull |-> bodyNull, bodyEmpty |-> bodyEmpty,
   errorText |-> errorText, failedImages |-> failedImages,
   unstyledMajority |-> unstyledMajority]

analyzeRenderedOutput(iframeSet, snap) ==
  IF ~iframeSet \/ ~snap.hasDocument
  THEN [threw |-> FALSE,
        errors |-> <<Defect("render_error", "Failed to render content in iframe", <<>>, <<>>)>>]
  ELSE IF snap.bodyNull
  THEN \* the push for the empty body is made, then doc.body.innerText throws
       [threw |-> TRUE,
        errors |-> <<Defect("render_error", "Document body is empty - nothing rendered", <<>>, <<>>)>>]
  ELSE [threw |-> FALSE,
        errors |->
          (IF snap.bodyEmpty
           THEN <<Defect("render_error", "Document body is empty - nothing rendered", <<>>, <<>>)>>
           ELSE <<>>)
          \o (IF snap.errorText
              THEN <<Defect("runtime_error", "Error messages visible in rendered output", <<>>, <<>>)>>
              ELSE <<>>)
          \o (IF snap.failedImages > 0
              THEN <<Defect("missing_dependency", "image(s) failed to load", <<>>, <<snap.failedImages>>)>>
              ELSE <<>>)
          \o (IF snap.unstyledMajority
              THEN <<Defect("layout_broken", "Many elements appear unstyled - possible CSS issues", <<>>, <<>>)>>
              ELSE <<>>)]

\* the defect a listener pushes for an uncaught error of the iframe's window
RuntimeError == Defect("runtime_error", "Uncaught error", <<>>, <<>>)

(***************************************************************************)
(* The inputs of the model: artifacts, generative responses, rendered       *)
(* documents.                                                               *)
(***************************************************************************)
Lorem == Text("Hello from the generated page.")

\* a complete document, 84 characters
GoodDoc ==
  <<Doctype, Open("html"), Open("head"), Close("head"), Open("body"), Lorem,
    Close("body"), Close("html")>>

\* a document with an unclosed <div>, 76 characters
UnclosedDoc ==
  <<Doctype, Open("html"), Open("body"), Open("div"), Lorem, Close("body"), Close("html")>>

\* 6 characters, below the minimum length
ShortDoc == <<Open("html")>>

InitialCodes == {GoodDoc, UnclosedDoc, ShortDoc}

Responses ==
  { <<Text("x"), FenceOpen>> \o GoodDoc \o <<FenceClose>>,
    UnclosedDoc,
    <<FenceOpen>> \o ShortDoc \o <<FenceClose>> }

Snapshots ==
  { Snapshot(TRUE, FALSE, FALSE, FALSE, 0, FALSE),
    Snapshot(FALSE, FALSE, FALSE, FALSE, 0, FALSE),
    Snapshot(TRUE, TRUE, FALSE, FALSE, 0, FALSE),
    Snapshot(TRUE, FALSE, TRUE, FALSE, 1, FALSE) }

OriginalPrompt == "make me a page"

\* the defect lists a direct caller of healCode passes
ApiErrorLists == { <<IncompleteCodeError>>, <<RuntimeError>> }

NoDoc == <<[k |-> "blank", n |-> "about:blank"]>>
NoCheck == [code |-> NoDoc, defects |-> <<>>, threw |-> FALSE]

(***************************************************************************)
(* State.                                                                  *)
(***************************************************************************)
VARIABLES
  initialCode,     \* prop initialCode
  currentCode,     \* useState(initialCode)
  isHealing,       \* useState(false)
  healingStatus,   \* useState(''), the status line by its kind
  errors,          \* useState([])
  fixAttempts,     \* useState([]): "initial" or "attemptHistory" (the engine's array)
  attemptCount,    \* useRef(0)
  effectPending,   \* "mount", "update" or "none": effects React has yet to run
  timers,          \* captured code of each setTimeout callback not yet run
  completed,       \* fixedCode of each onFixComplete call
  attemptHistory,  \* SelfHealingEngine.attemptHistory
  pendingHeals,    \* healCode calls suspended at the await of requestFix
  invokeLog,       \* arguments of every invoke the generative service received
  healOutcome,     \* how the most recent healCode promise settled
  apiCalls,        \* calls made by a direct caller of the engine or the detector
  errorLog,        \* ErrorDetector.errorLog
  iframe,          \* ErrorDetector.iframe is set
  loadListeners,   \* 'load' listeners registered on the iframe element
  errorListeners,  \* sets of error listeners installed on the iframe's current window
  surfaceDoc,      \* the document the iframe currently holds
  surfaceLoaded,   \* the iframe fired load for that document
  lastStageA,      \* argument and result of the latest detectSyntaxErrors call
  lastInspect,     \* document and result of the latest merged inspection
  clears,          \* clearHistory calls made by a direct caller of the engine
  unheard,         \* error events the iframe's window raised with no listener on it
  raisedBy         \* for each entry of errorLog, the document that raised it

vars ==
  <<initialCode, currentCode, isHealing, healingStatus, errors, fixAttempts,
    attemptCount, effectPending, timers, completed, attemptHistory, pendingHeals,
    invokeLog, healOutcome, apiCalls, errorLog, iframe, loadListeners,
    errorListeners, surfaceDoc, surfaceLoaded, lastStageA, lastInspect, now, clears,
    unheard, raisedBy>>

componentVars ==
  <<initialCode, currentCode, isHealing, healingStatus, errors, fixAttempts,
    attemptCount, effectPending, timers, completed>>
detectorVars == <<errorLog, iframe, loadListeners, errorListeners>>
surfaceVars == <<surfaceDoc, surfaceLoaded>>
\* the clock, the count of clearHistory calls, and two records of what the
\* iframe's documents did: the error events no listener saw, and the
\* document behind each entry of errorLog
auxVars == <<now, clears, unheard, raisedBy>>

Init ==
  /\ initialCode \in InitialCodes
  /\ currentCode = initialCode
  /\ isHealing = FALSE
  /\ healingStatus = ""
  /\ errors = <<>>
  /\ fixAttempts = "initial"
  /\ attemptCount = 0
  /\ effectPending = "mount"
  /\ timers = <<>>
  /\ completed = <<>>
  /\ attemptHistory = <<>>
  /\ pendingHeals = <<>>
  /\ invokeLog = <<>>
  /\ healOutcome = NoOutcome
  /\ apiCalls = 0
  /\ errorLog = <<>>
  /\ iframe = FALSE
  /\ loadListeners = 0
  /\ errorListeners = 0
  /\ surfaceDoc = NoDoc
  /\ surfaceLoaded = FALSE
  /\ lastStageA = NoCheck
  /\ lastInspect = NoCheck
  /\ now = 0
  /\ clears = 0
  /\ unheard = 0
  /\ raisedBy = <<>>

(***************************************************************************)
(* SelfHealingPreview.                                                     *)
(* An action is one run of JavaScript to completion: from the start of a    *)
(* callback to its first suspension, or from the settling of a promise to   *)
(* the next suspension.                                                     *)
(***************************************************************************)

\* attemptFix from its entry to the await of healCode (or to the end of its
\* catch block when healCode rejects at once)
AttemptFix(brokenCode, detectedErrors) ==
  /\ attemptCount' = attemptCount + 1
  /\ IF HealCodeRejects(attemptCount + 1)
     THEN /\ healingStatus' = "could_not_fix"
          /\ isHealing' = FALSE
          /\ fixAttempts' = "attemptHistory"
          /\ healOutcome' = MaxAttemptsError
          /\ UNCHANGED <<pendingHeals, invokeLog>>
     ELSE LET call == HealCall(OriginalPrompt, brokenCode, detectedErrors,
                               attemptCount + 1, "attemptFix")
          IN  /\ healingStatus' = "fix_attempt"
              /\ isHealing' = TRUE
              /\ pendingHeals' = Append(pendingHeals, call)
              /\ invokeLog' = Append(invokeLog, InvokeArgs(call.fixPrompt, Len(attemptHistory)))
              /\ UNCHANGED <<fixAttempts, healOutcome>>

\* the test without its !code half: the empty string goes on to the static
\* analysis
IsMalformedNonEmptyOnly(code) == code # <<>> /\ CodeLength(code) < MinCodeLength

\* the test that sends an artifact to attemptFix before any static analysis
IsMalformed(code) == code = <<>> \/ CodeLength(code) < MinCodeLength

\* a plausible slip of the gate below: one defect is let through
SyntaxCheckFailsOnlyOnSeveral(syntaxErrors) == Len(syntaxErrors) > 1

\* the gate after static analysis: any defect sends the code to attemptFix
SyntaxCheckFails(syntaxErrors) == Len(syntaxErrors) > 0

\* the gate written with >= for >: an empty list is sent to attemptFix as well
InspectionFailsOnEmpty(allErrors) == Len(allErrors) >= 0

\* the gate after the merged inspection
InspectionFails(allErrors) == Len(allErrors) > 0

\* validateAndHeal without the await and the return after attemptFix: the
\* timer is armed for code that was sent to attemptFix
ValidateAndHealNoReturn(code) ==
  IF IsMalformed(code)
  THEN /\ errors' = <<IncompleteCodeError>>
       /\ AttemptFix(code, <<IncompleteCodeError>>)
       /\ timers' = Append(timers, code)
       /\ UNCHANGED lastStageA
  ELSE LET syntaxErrors == detectSyntaxErrors(code)
       IN  /\ lastStageA' = [code |-> code, defects |-> syntaxErrors, threw |-> FALSE]
           /\ IF SyntaxCheckFails(syntaxErrors)
              THEN /\ errors' = syntaxErrors
                   /\ AttemptFix(code, syntaxErrors)
                   /\ timers' = Append(timers, code)
              ELSE /\ healingStatus' = "rendering"
                   /\ timers' = Append(timers, code)
                   /\ UNCHANGED <<errors, attemptCount, isHealing, fixAttempts,
                                  pendingHeals, invokeLog, healOutcome>>

\* validateAndHeal from its entry to its first suspension
ValidateAndHeal(code) ==
  IF IsMalformed(code)
  THEN /\ errors' = <<IncompleteCodeError>>
       /\ AttemptFix(code, <<IncompleteCodeError>>)
       /\ UNCHANGED <<timers, lastStageA>>
  ELSE LET syntaxErrors == detectSyntaxErrors(code)
       IN  /\ lastStageA' = [code |-> code, defects |-> syntaxErrors, threw |-> FALSE]
           /\ IF SyntaxCheckFails(syntaxErrors)
              THEN /\ errors' = syntaxErrors
                   /\ AttemptFix(code, syntaxErrors)
                   /\ UNCHANGED timers
              ELSE /\ healingStatus' = "rendering"
                   /\ timers' = Append(timers, code)
                   /\ UNCHANGED <<errors, attemptCount, isHealing, fixAttempts,
                                  pendingHeals, invokeLog, healOutcome>>

\* the two effects of the first commit: validateAndHeal(currentCode), then
\* monitorIframe(iframeRef.current)
Mount ==
  /\ UNCHANGED auxVars
  /\ effectPending = "mount"
  /\ effectPending' = "none"
  /\ ValidateAndHeal(currentCode)
  /\ iframe' = TRUE
  /\ loadListeners' = loadListeners + 1
  /\ UNCHANGED <<initialCode, currentCode, completed, attemptHistory, apiCalls,
                 errorLog, errorListeners, surfaceVars, lastInspect>>

\* the effect on [currentCode] after a commit that changed currentCode
RunEffect ==
  /\ UNCHANGED auxVars
  /\ effectPending = "update"
  /\ effectPending' = "none"
  /\ ValidateAndHeal(currentCode)
  /\ UNCHANGED <<initialCode, currentCode, completed, attemptHistory, apiCalls,
                 detectorVars, surfaceVars, lastInspect>>

\* the setTimeout callback of validateAndHeal.  The 1000 ms delay is taken
\* to outlast the iframe's switch to the srcDoc of the same commit; it does
\* not wait for the load event.  iframeRef.current is set for as long as
\* the component is mounted, so the early return is not taken.
TimerFire ==
  /\ UNCHANGED auxVars
  /\ timers # <<>>
  /\ surfaceDoc = Head(timers)
  /\ timers' = Tail(timers)
  /\ \E snap \in Snapshots :
       LET code == Head(timers)
           runtimeErrors == errorLog
           rendered == analyzeRenderedOutput(iframe, snap)
           allErrors == runtimeErrors \o rendered.errors
       IN  IF rendered.threw
           THEN /\ lastInspect' = [code |-> surfaceDoc, defects |-> allErrors, threw |-> TRUE]
                /\ UNCHANGED <<errors, attemptCount, isHealing, healingStatus, fixAttempts,
                               pendingHeals, invokeLog, healOutcome, attemptHistory, completed>>
           ELSE /\ lastInspect' = [code |-> surfaceDoc, defects |-> allErrors, threw |-> FALSE]
                /\ IF InspectionFails(allErrors)
                   THEN /\ errors' = allErrors
                        /\ AttemptFix(code, allErrors)
                        /\ UNCHANGED <<attemptHistory, completed>>
                   ELSE /\ healingStatus' = "working"
                        /\ isHealing' = FALSE
                        /\ attemptHistory' = MarkLast(attemptHistory)
                        /\ completed' = Append(completed, code)
                        /\ UNCHANGED <<errors, attemptCount, fixAttempts, pendingHeals,
                                       invokeLog, healOutcome>>
  /\ UNCHANGED <<initialCode, currentCode, effectPending, apiCalls, detectorVars,
                 surfaceVars, lastStageA>>

\* the generative service answers the i-th suspended call with response:
\* requestFix returns, healCode pushes the attempt and returns, and for a
\* call made by attemptFix the rest of its try block runs
GenReturn(i, response) ==
  /\ UNCHANGED <<now, clears, unheard>>
  /\ i \in 1..Len(pendingHeals)
  /\ LET call == pendingHeals[i]
         fixedCode == ExtractCode(response)
     IN  /\ pendingHeals' = RemoveAt(pendingHeals, i)
         /\ attemptHistory' = Append(attemptHistory, FixAttempt(call, fixedCode))
         /\ healOutcome' = Fulfilled(fixedCode)
         /\ IF call.caller = "attemptFix"
            THEN /\ fixAttempts' = "attemptHistory"
                 /\ errorLog' = <<>>
                 /\ raisedBy' = <<>>
                 /\ currentCode' = fixedCode
                 \* setState with an equal value: no render, no effect
                 /\ effectPending' = IF fixedCode = currentCode THEN effectPending ELSE "update"
            ELSE UNCHANGED <<fixAttempts, errorLog, raisedBy, currentCode, effectPending>>
  /\ UNCHANGED <<initialCode, isHealing, healingStatus, errors, attemptCount, timers,
                 completed, invokeLog, apiCalls, iframe, loadListeners, errorListeners,
                 surfaceVars, lastStageA, lastInspect>>

\* a catch block that schedules another validation instead of stopping
GenFailRetrying(i) ==
  /\ UNCHANGED auxVars
  /\ i \in 1..Len(pendingHeals)
  /\ LET call == pendingHeals[i]
     IN  /\ pendingHeals' = RemoveAt(pendingHeals, i)
         /\ healOutcome' = LLMError
         /\ IF call.caller = "attemptFix"
            THEN /\ healingStatus' = "could_not_fix"
                 /\ isHealing' = FALSE
                 /\ fixAttempts' = "attemptHistory"
                 /\ effectPending' = "update"
            ELSE UNCHANGED <<healingStatus, isHealing, fixAttempts, effectPending>>
  /\ UNCHANGED <<initialCode, currentCode, errors, attemptCount, timers,
                 completed, attemptHistory, invokeLog, apiCalls, detectorVars,
                 surfaceVars, lastStageA, lastInspect>>

\* the invoke of the i-th suspended call rejects: requestFix rethrows,
\* healCode rejects, and for a call made by attemptFix its catch block runs
GenFail(i) ==
  /\ UNCHANGED auxVars
  /\ i \in 1..Len(pendingHeals)
  /\ LET call == pendingHeals[i]
     IN  /\ pendingHeals' = RemoveAt(pendingHeals, i)
         /\ healOutcome' = LLMError
         /\ IF call.caller = "attemptFix"
            THEN /\ healingStatus' = "could_not_fix"
                 /\ isHealing' = FALSE
                 /\ fixAttempts' = "attemptHistory"
            ELSE UNCHANGED <<healingStatus, isHealing, fixAttempts>>
  /\ UNCHANGED <<initialCode, currentCode, errors, attemptCount, effectPending, timers,
                 completed, attemptHistory, invokeLog, apiCalls, detectorVars,
                 surfaceVars, lastStageA, lastInspect>>

(***************************************************************************)
(* The iframe (execution surface) and the listeners monitorIframe installs. *)
(***************************************************************************)

\* the iframe replaces its document by the srcDoc of the last commit; the
\* new document has a new window, without the listeners of the old one
SurfaceNavigate ==
  /\ UNCHANGED auxVars
  /\ effectPending = "none"
  /\ surfaceDoc # currentCode
  /\ surfaceDoc' = currentCode
  /\ surfaceLoaded' = FALSE
  /\ errorListeners' = 0
  /\ UNCHANGED <<componentVars, attemptHistory, pendingHeals, invokeLog, healOutcome,
                 apiCalls, errorLog, iframe, loadListeners, lastStageA, lastInspect>>

\* the iframe fires load: every registered load listener wraps console.error
\* and adds the error and unhandledrejection listeners to the window
SurfaceLoad ==
  /\ UNCHANGED auxVars
  /\ surfaceDoc # NoDoc
  /\ ~surfaceLoaded
  /\ surfaceLoaded' = TRUE
  /\ errorListeners' = errorListeners + loadListeners
  /\ UNCHANGED <<componentVars, attemptHistory, pendingHeals, invokeLog, healOutcome,
                 apiCalls, errorLog, iframe, loadListeners, surfaceDoc, lastStageA,
                 lastInspect>>

RECURSIVE Repeat(_, _)
Repeat(x, n) == IF n = 0 THEN <<>> ELSE <<x>> \o Repeat(x, n - 1)

\* the document raises an error the installed listeners see: each installed
\* set of listeners pushes one runtime_error
SurfaceError ==
  /\ UNCHANGED <<now, clears, unheard>>
  /\ errorListeners > 0
  /\ Len(errorLog) < MaxErrorLog
  /\ errorLog' = errorLog \o Repeat(RuntimeError, errorListeners)
  /\ raisedBy' = raisedBy \o Repeat(surfaceDoc, errorListeners)
  /\ UNCHANGED <<componentVars, attemptHistory, pendingHeals, invokeLog, healOutcome,
                 apiCalls, iframe, loadListeners, errorListeners, surfaceVars,
                 lastStageA, lastInspect>>

Next ==
  \/ Mount
  \/ RunEffect
  \/ TimerFire
  \/ \E i \in 1..Len(pendingHeals) : \E response \in Responses : GenReturn(i, response)
  \/ \E i \in 1..Len(pendingHeals) : GenFail(i)
  \/ SurfaceNavigate
  \/ SurfaceLoad
  \/ SurfaceError

Spec == Init /\ [][Next]_vars

FairSpec ==
  /\ Spec
  /\ WF_vars(Mount)
  /\ WF_vars(RunEffect)
  /\ WF_vars(TimerFire)
  /\ WF_vars(SurfaceNavigate)
  /\ WF_vars(\E i \in 1..Len(pendingHeals) :
               \/ GenFail(i)
               \/ \E response \in Responses : GenReturn(i, response))

(***************************************************************************)
(* The engine used directly: a caller that holds a SelfHealingEngine and    *)
(* calls its public methods with arguments of its own choice.               *)
(***************************************************************************)
EngineInit ==
  /\ initialCode = UnclosedDoc
  /\ currentCode = initialCode
  /\ isHealing = FALSE
  /\ healingStatus = ""
  /\ errors = <<>>
  /\ fixAttempts = "initial"
  /\ attemptCount = 0
  /\ effectPending = "none"
  /\ timers = <<>>
  /\ completed = <<>>
  /\ attemptHistory = <<>>
  /\ pendingHeals = <<>>
  /\ invokeLog = <<>>
  /\ healOutcome = NoOutcome
  /\ apiCalls = 0
  /\ errorLog = <<>>
  /\ iframe = FALSE
  /\ loadListeners = 0
  /\ errorListeners = 0
  /\ surfaceDoc = NoDoc
  /\ surfaceLoaded = FALSE
  /\ lastStageA = NoCheck
  /\ lastInspect = NoCheck
  /\ now = 0
  /\ clears = 0
  /\ unheard = 0
  /\ raisedBy = <<>>

\* healCode(OriginalPrompt, brokenCode, errs, attemptNumber) from its entry
\* to the await of requestFix, or to its throw
ApiHealCode(attemptNumber, brokenCode, errs) ==
  /\ UNCHANGED auxVars
  /\ apiCalls < MaxApiCalls
  /\ apiCalls' = apiCalls + 1
  /\ IF HealCodeRejects(attemptNumber)
     THEN /\ healOutcome' = MaxAttemptsError
          /\ UNCHANGED <<pendingHeals, invokeLog>>
     ELSE LET call == HealCall(OriginalPrompt, brokenCode, errs, attemptNumber, "api")
          IN  /\ pendingHeals' = Append(pendingHeals, call)
              /\ invokeLog' = Append(invokeLog, InvokeArgs(call.fixPrompt, Len(attemptHistory)))
              /\ UNCHANGED healOutcome
  /\ UNCHANGED <<componentVars, attemptHistory, detectorVars, surfaceVars,
                 lastStageA, lastInspect>>

\* markLastAttemptSuccess()
ApiMarkLastAttemptSuccess ==
  /\ UNCHANGED auxVars
  /\ attemptHistory' = MarkLast(attemptHistory)
  /\ UNCHANGED <<componentVars, pendingHeals, invokeLog, healOutcome, apiCalls,
                 detectorVars, surfaceVars, lastStageA, lastInspect>>

\* clearHistory()
ApiClearHistory ==
  /\ clears < MaxClears
  /\ clears' = clears + 1
  /\ attemptHistory' = <<>>
  /\ UNCHANGED <<componentVars, pendingHeals, invokeLog, healOutcome, apiCalls,
                 detectorVars, surfaceVars, lastStageA, lastInspect, now, unheard, raisedBy>>

\* the responses a direct caller's generative service gives: those of the
\* session, a response whose fence is never closed, and a response with text
\* after the fenced block
ApiResponses ==
  Responses \cup { <<FenceOpen>> \o GoodDoc,
                   <<Text("x"), FenceOpen>> \o GoodDoc \o <<FenceClose, Text("x")>> }

EngineNext ==
  \/ \E attemptNumber \in 1..MaxOrdinal : \E errs \in ApiErrorLists :
       ApiHealCode(attemptNumber, UnclosedDoc, errs)
  \/ \E i \in 1..Len(pendingHeals) : \E response \in ApiResponses : GenReturn(i, response)
  \/ \E i \in 1..Len(pendingHeals) : GenFail(i)
  \/ ApiMarkLastAttemptSuccess
  \/ ApiClearHistory

EngineSpec == EngineInit /\ [][EngineNext]_vars

(***************************************************************************)
(* Properties.                                                             *)
(***************************************************************************)

\* nothing of the session is scheduled: no effect to run, no timer armed,
\* no healCode call awaiting the generative service
Quiescent == effectPending = "none" /\ timers = <<>> /\ pendingHeals = <<>>

EscalationOrder ==
  <<"explain_and_fix", "add_error_handling", "simplify", "use_alternatives",
    "rebuild_from_scratch">>

\* every answered call returned the broken artifact it was given
EchoOnly ==
  /\ Len(invokeLog) >= 1
  /\ Len(attemptHistory) = Len(invokeLog)
  /\ \A i \in 1..Len(attemptHistory) :
       attemptHistory[i].result = attemptHistory[i].prompt.brokenCode

\* C1: when the generative service returns on every call the broken
\* artifact it was given, the session comes to rest only as failed, after
\* exactly 5 attempts numbered 1..5 with the strategies of the escalation
\* order.
C1_ScenarioC_FiveAttemptsThenFailed ==
  (Quiescent /\ EchoOnly) =>
    /\ healingStatus = "could_not_fix"
    /\ Len(attemptHistory) = 5
    /\ Len(invokeLog) = 5
    /\ \A i \in 1..Len(attemptHistory) :
         /\ attemptHistory[i].attemptNumber = i
         /\ attemptHistory[i].strategy = EscalationOrder[i]

\* C2: with every generative call answered, every timer fired and every
\* effect run, a session eventually reaches success or failed.
C2_SessionTerminates ==
  <>(healingStatus \in {"working", "could_not_fix"})

\* C3: whenever onFixComplete has been called, the artifact it was given is
\* the current artifact, the latest static analysis and the latest merged
\* inspection were both made on that artifact, and both found nothing.
C3_SuccessIsValidated ==
  completed # <<>> =>
    LET code == completed[Len(completed)]
    IN  /\ healingStatus = "working"
        /\ code = currentCode
        /\ lastStageA = [code |-> code, defects |-> <<>>, threw |-> FALSE]
        /\ lastInspect = [code |-> code, defects |-> <<>>, threw |-> FALSE]

\* success reported for an artifact that a heal call returned
C3_Witness ==
  /\ completed # <<>>
  /\ Len(attemptHistory) >= 1
  /\ attemptHistory[Len(attemptHistory)].result = completed[Len(completed)]

\* C4: the document the iframe holds is never an artifact that the static
\* stage finds defective.
C4_RenderedPassedStageA ==
  surfaceDoc # NoDoc =>
    /\ ~IsMalformed(surfaceDoc)
    /\ detectSyntaxErrors(surfaceDoc) = <<>>

\* C5: a healCode call with an ordinal above maxAttempts rejects with the
\* max-attempts error, sends nothing to the generative service and leaves
\* the attempt history as it was.
C5_HealAboveMaxRejected ==
  [][\A attemptNumber \in (maxAttempts + 1)..MaxOrdinal : \A errs \in ApiErrorLists :
       ApiHealCode(attemptNumber, UnclosedDoc, errs) =>
         /\ healOutcome' = MaxAttemptsError
         /\ invokeLog' = invokeLog
         /\ pendingHeals' = pendingHeals
         /\ attemptHistory' = attemptHistory]_vars

\* a call was rejected for its ordinal on an engine that holds attempts
C5_Witness ==
  /\ healOutcome = MaxAttemptsError
  /\ apiCalls >= 1
  /\ Len(attemptHistory) >= 1

\* what a FixAttempt without result artifact holds in its result field
NoResult == <<[k |-> "none", n |-> "undefined"]>>

\* C6: when the generative call of a healCode call fails, the call rejects
\* with the repair-request error and one attempt, without result and not
\* successful, has been appended to the history.
C6_FailedCallIsRecorded ==
  [][\A i \in 1..Len(pendingHeals) :
       GenFail(i) =>
         /\ healOutcome' = LLMError
         /\ Len(attemptHistory') = Len(attemptHistory) + 1
         /\ SubSeq(attemptHistory', 1, Len(attemptHistory)) = attemptHistory
         /\ attemptHistory'[Len(attemptHistory')].result = NoResult
         /\ attemptHistory'[Len(attemptHistory')].success = FALSE]_vars

C8_SequenceNumbersFromOne ==
  \A i \in 1..Len(attemptHistory) : attemptHistory[i].attemptNumber = i

\* C9: in a session that ended in success exactly the last attempt is
\* marked successful, in a session that ended in failed none is, and every
\* attempt is appended with success = FALSE.
C9_OnlyLastAttemptSucceeded ==
  /\ [](healingStatus = "working" =>
          \A i \in 1..Len(attemptHistory) :
            attemptHistory[i].success <=> (i = Len(attemptHistory)))
  /\ [](healingStatus = "could_not_fix" =>
          \A i \in 1..Len(attemptHistory) : ~attemptHistory[i].success)
  /\ [][Len(attemptHistory') > Len(attemptHistory) =>
          ~attemptHistory'[Len(attemptHistory')].success]_vars

\* a session that ended in success after two or more attempts
C9_Witness ==
  /\ healingStatus = "working"
  /\ completed # <<>>
  /\ Len(attemptHistory) >= 2

\* C10: attemptFix increments the ordinal first; a step that takes it above
\* maxAttempts ends in failed without a generative call, so a session makes
\* at most maxAttempts calls and records at most maxAttempts attempts.
C10_AtMostFiveCalls ==
  /\ [](Len(invokeLog) <= 5 /\ Len(attemptHistory) <= 5)
  /\ [][invokeLog' # invokeLog =>
          /\ attemptCount' = attemptCount + 1
          /\ invokeLog'[Len(invokeLog')].prompt.attemptNumber = attemptCount']_vars
  /\ [][(attemptCount' # attemptCount /\ attemptCount' > 5) =>
          /\ invokeLog' = invokeLog
          /\ pendingHeals' = pendingHeals
          /\ healingStatus' = "could_not_fix"]_vars

\* the sixth attemptFix of a session: five calls made, five attempts kept
C10_Witness ==
  /\ attemptCount = 6
  /\ Len(invokeLog) = 5
  /\ Len(attemptHistory) = 5
  /\ healingStatus = "could_not_fix"

TerminalStatus == {"working", "could_not_fix"}

\* C11: a failed generative call takes the session to failed; once the
\* session is in success or failed nothing is scheduled, no validation, heal
\* call or generative call follows, and the attempt history stays as it is
\* and in the caller's reach.
C11_TerminalStates ==
  /\ [][\A i \in 1..Len(pendingHeals) :
          (GenFail(i) /\ pendingHeals[i].caller = "attemptFix") =>
            (healingStatus' = "could_not_fix" /\ healOutcome' = LLMError)]_vars
  /\ [](healingStatus \in TerminalStatus => Quiescent)
  /\ [][(healingStatus \in TerminalStatus) =>
          UNCHANGED <<healingStatus, currentCode, attemptCount, invokeLog,
                      lastStageA, lastInspect, attemptHistory, completed>>]_vars
  /\ [](healingStatus = "could_not_fix" => fixAttempts = "attemptHistory")
  /\ [](healingStatus = "working" => completed # <<>>)

\* a session that failed on a rejected generative call after a recorded attempt
C11_Witness ==
  /\ healingStatus = "could_not_fix"
  /\ healOutcome = LLMError
  /\ Len(attemptHistory) >= 1

\* effects, timers and healCode calls of the session that are yet to run
InFlight ==
  Len(pendingHeals) + Len(timers) + (IF effectPending = "none" THEN 0 ELSE 1)

\* C12: at most one validation cycle or heal call is under way at any time,
\* and a generative call is made only when every earlier heal call has
\* completed and the artifact it returned is the one that was validated.
C12_OneAttemptInFlight ==
  /\ [](InFlight <= 1)
  /\ [][invokeLog' # invokeLog =>
          /\ pendingHeals = <<>>
          /\ Len(pendingHeals') = 1
          /\ Len(attemptHistory) = Len(invokeLog)
          /\ Len(attemptHistory) >= 1 =>
               LET c == invokeLog'[Len(invokeLog')].prompt.brokenCode
               IN  /\ c = attemptHistory[Len(attemptHistory)].result
                   /\ (IsMalformed(c) \/ lastStageA'.code = c)]_vars

\* a second heal call under way after the first one completed
C12_Witness ==
  /\ Len(pendingHeals) = 1
  /\ Len(attemptHistory) >= 1
  /\ pendingHeals[1].fixPrompt.brokenCode = attemptHistory[Len(attemptHistory)].result

(***************************************************************************)
(* The detector's static check used directly: detectSyntaxErrors is called  *)
(* on a document, any number of times, while the clock advances.            *)
(***************************************************************************)

\* the tokens a checked document may hold between <body> and </body>
BodyTokens ==
  { Open("div"), Close("div"), Open("p"), Open("span"), Open("br"),
    Open("script"), Close("script"), Text("{") }

Bodies == UNION { [1..n -> BodyTokens] : n \in 0..MaxBody }

\* a document with or without its DOCTYPE, <html>, <body> and </html>
Document(doctype, htmlOpen, bodyOpen, htmlClose, body) ==
  (IF doctype THEN <<Doctype>> ELSE <<>>)
  \o (IF htmlOpen THEN <<Open("html")>> ELSE <<>>)
  \o <<Open("head"), Close("head")>>
  \o (IF bodyOpen THEN <<Open("body")>> ELSE <<>>)
  \o body
  \o <<Close("body")>>
  \o (IF htmlClose THEN <<Close("html")>> ELSE <<>>)

\* the documents, and the empty string
StageAInputs ==
  { Document(d, h, b, c, body) : d \in BOOLEAN, h \in BOOLEAN, b \in BOOLEAN,
                                 c \in BOOLEAN, body \in Bodies }
  \cup { <<>> }

StageAInit ==
  /\ initialCode \in StageAInputs
  /\ currentCode = initialCode
  /\ isHealing = FALSE
  /\ healingStatus = ""
  /\ errors = <<>>
  /\ fixAttempts = "initial"
  /\ attemptCount = 0
  /\ effectPending = "none"
  /\ timers = <<>>
  /\ completed = <<>>
  /\ attemptHistory = <<>>
  /\ pendingHeals = <<>>
  /\ invokeLog = <<>>
  /\ healOutcome = NoOutcome
  /\ apiCalls = 0
  /\ errorLog = <<>>
  /\ iframe = FALSE
  /\ loadListeners = 0
  /\ errorListeners = 0
  /\ surfaceDoc = NoDoc
  /\ surfaceLoaded = FALSE
  /\ lastStageA = NoCheck
  /\ lastInspect = NoCheck
  /\ now = 0
  /\ clears = 0
  /\ unheard = 0
  /\ raisedBy = <<>>

\* a call that collects the defects in the detector's errorLog instead of a
\* local array
DetectStaticIntoLog ==
  /\ apiCalls < MaxApiCalls
  /\ apiCalls' = apiCalls + 1
  /\ errorLog' = errorLog \o detectSyntaxErrors(currentCode)
  /\ lastStageA' = [code |-> currentCode, defects |-> errorLog', threw |-> FALSE]
  /\ UNCHANGED <<componentVars, attemptHistory, pendingHeals, invokeLog, healOutcome,
                 iframe, loadListeners, errorListeners, surfaceVars,
                 lastInspect, auxVars>>

\* errorDetector.detectSyntaxErrors(currentCode)
DetectStatic ==
  /\ apiCalls < MaxApiCalls
  /\ apiCalls' = apiCalls + 1
  /\ lastStageA' = [code |-> currentCode,
                    defects |-> detectSyntaxErrors(currentCode), threw |-> FALSE]
  /\ UNCHANGED <<componentVars, attemptHistory, pendingHeals, invokeLog, healOutcome,
                 detectorVars, surfaceVars, lastInspect, auxVars>>

\* a millisecond passes
Tick ==
  /\ now < MaxClock
  /\ now' = now + 1
  /\ UNCHANGED <<componentVars, attemptHistory, pendingHeals, invokeLog, healOutcome,
                 apiCalls, detectorVars, surfaceVars, lastStageA, lastInspect, clears,
                 unheard, raisedBy>>

StageANext == DetectStatic \/ Tick

StageASpec == StageAInit /\ [][StageANext]_vars

\* the defects of one kind, in order
OfType(ds, type) == SelectSeq(ds, LAMBDA d : d.type = type)

\* C13: a document without </html> gets exactly one incomplete_code defect
\* from the static check.
C13_OneIncompleteDefect ==
  (lastStageA # NoCheck /\ ~HasHtmlClose(lastStageA.code)) =>
    Len(OfType(lastStageA.defects, "incomplete_code")) = 1

OpenCount(code, name) == Count(code, {Open(name)})
CloseCount(code, name) == Count(code, {Close(name)})
TagNames(code) ==
  { code[i].n : i \in { j \in 1..Len(code) : code[j].k \in {"open", "close"} } }

\* the names of the non-void opening tags that have no closing tag
UnclosedNames(code) ==
  { name \in TagNames(code) \ {"br", "hr", "img", "input", "meta", "link"} :
      OpenCount(code, name) >= 1 /\ CloseCount(code, name) = 0 }

RequiredStructure(code) ==
  /\ \E i \in 1..Len(code) : code[i] = Doctype
  /\ \E i \in 1..Len(code) : code[i] = Open("html")
  /\ \E i \in 1..Len(code) : code[i] = Open("body")
  /\ \E i \in 1..Len(code) : code[i] = Close("html")

Balanced(text) ==
  /\ Count(text, {Text("{")}) = Count(text, {Text("}")})
  /\ Count(text, {Text("("), Text("function (")}) = Count(text, {Text(")")})

\* the case of C14: structure present, braces and parentheses balanced,
\* N >= 1 unclosed non-void tags of distinct names
UnclosedCase(code) ==
  /\ RequiredStructure(code)
  /\ Balanced(code)
  /\ UnclosedNames(code) # {}
  /\ \A name \in UnclosedNames(code) : OpenCount(code, name) = 1

\* one syntax defect, the list of unclosed tags, naming every non-void tag as
\* many times as it is opened more often than closed
OneUnclosedDefect(code, ds) ==
  LET syn == OfType(ds, "syntax_error")
  IN  /\ Len(syn) = 1
      /\ syn[1].message = "Unclosed tags"
      /\ \A name \in TagNames(code) \ {"br", "hr", "img", "input", "meta", "link"} :
           Len(SelectSeq(syn[1].tags, LAMBDA x : x = name))
             = OpenCount(code, name) - CloseCount(code, name)

\* C14 as stated: in the unclosed-tags case the static check reports exactly
\* one syntax defect, and it lists all N unclosed names.
C14_UnclosedTagsOneDefect ==
  (lastStageA # NoCheck /\ UnclosedCase(lastStageA.code)) =>
    LET syn == OfType(lastStageA.defects, "syntax_error")
    IN  /\ Len(syn) = 1
        /\ UnclosedNames(lastStageA.code) \subseteq { syn[1].tags[i] : i \in 1..Len(syn[1].tags) }

\* no closing tag without an opening tag of its name, and every inline script
\* region balanced in itself
NoStrayClosing(code) ==
  /\ \A name \in TagNames(code) : CloseCount(code, name) <= OpenCount(code, name)
  /\ LET scripts == ScriptMatches(code, 1)
     IN  \A i \in 1..Len(scripts) : Balanced(scripts[i])

\* C14 amended: in the unclosed-tags case, when moreover every closing tag has
\* an opening tag of its name and every inline script region is balanced, the
\* static check reports exactly one syntax defect, the unclosed-tags defect,
\* and it lists every unclosed name.
C14_UnclosedTagsOneDefectNoStray ==
  (lastStageA # NoCheck /\ UnclosedCase(lastStageA.code) /\ NoStrayClosing(lastStageA.code)) =>
    /\ OneUnclosedDefect(lastStageA.code, lastStageA.defects)
    /\ Len(lastStageA.defects) = 1

\* scenario B: three unclosed tags, one defect naming the three
C14_Witness ==
  /\ UnclosedCase(lastStageA.code)
  /\ NoStrayClosing(lastStageA.code)
  /\ UnclosedNames(lastStageA.code) = {"div", "p", "span"}
  /\ Len(lastStageA.defects) = 1
  /\ lastStageA.defects[1].tags = <<"div", "p", "span">>

\* a defect list without the timestamps
Unstamp(ds) ==
  [i \in 1..Len(ds) |->
     [type |-> ds[i].type, message |-> ds[i].message, tags |-> ds[i].tags, nums |-> ds[i].nums]]

\* C15 as stated: a second run of the static check on the same text returns a
\* list identical in every field, and changes neither the text nor the detector.
C15_RerunIdentical ==
  [][(DetectStatic /\ lastStageA.code = currentCode) =>
       /\ lastStageA'.defects = lastStageA.defects
       /\ UNCHANGED <<currentCode, detectorVars>>]_vars

\* C15 amended: a second run of the static check on the same text returns the
\* same defects in the same order, identical in every field except the
\* timestamp, and changes neither the text nor the detector.
C15_RerunSameDefects ==
  [][(DetectStatic /\ lastStageA.code = currentCode) =>
       /\ Unstamp(lastStageA'.defects) = Unstamp(lastStageA.defects)
       /\ UNCHANGED <<currentCode, detectorVars>>]_vars

\* two runs on one text, the second at a later clock reading, with defects
C15_Witness ==
  /\ apiCalls = 2
  /\ lastStageA.code = currentCode
  /\ Len(lastStageA.defects) >= 2
  /\ lastStageA.defects[1].timestamp = 1
  /\ errorLog = <<>>

(***************************************************************************)
(* The component mounted with the empty string as initialCode.              *)
(***************************************************************************)
EmptyStartInit ==
  /\ initialCode = <<>>
  /\ currentCode = initialCode
  /\ isHealing = FALSE
  /\ healingStatus = ""
  /\ errors = <<>>
  /\ fixAttempts = "initial"
  /\ attemptCount = 0
  /\ effectPending = "mount"
  /\ timers = <<>>
  /\ completed = <<>>
  /\ attemptHistory = <<>>
  /\ pendingHeals = <<>>
  /\ invokeLog = <<>>
  /\ healOutcome = NoOutcome
  /\ apiCalls = 0
  /\ errorLog = <<>>
  /\ iframe = FALSE
  /\ loadListeners = 0
  /\ errorListeners = 0
  /\ surfaceDoc = NoDoc
  /\ surfaceLoaded = FALSE
  /\ lastStageA = NoCheck
  /\ lastInspect = NoCheck
  /\ now = 0
  /\ clears = 0
  /\ unheard = 0
  /\ raisedBy = <<>>

EmptyStartSpec == EmptyStartInit /\ [][Next]_vars

\* C16 (scenario A): from the empty artifact the first validation reports the
\* one incomplete defect without static analysis and makes heal attempt 1 with
\* explain_and_fix on the empty text; when the response holds a document that
\* passes static analysis and the inspection after it finds no defect, that
\* inspection ends the session with "working", the extracted document handed
\* to onFixComplete, a history of length 1 and that attempt marked succeeded.
C16_ScenarioA ==
  /\ [][Mount =>
          /\ errors' = <<IncompleteCodeError>>
          /\ lastStageA' = NoCheck
          /\ Len(pendingHeals') = 1
          /\ pendingHeals'[1].attemptNumber = 1
          /\ pendingHeals'[1].strategy = "explain_and_fix"
          /\ pendingHeals'[1].errors = <<IncompleteCodeError>>
          /\ pendingHeals'[1].fixPrompt.brokenCode = <<>>
          /\ invokeLog' = <<InvokeArgs(pendingHeals'[1].fixPrompt, 0)>>]_vars
  /\ [][(TimerFire /\ Len(attemptHistory) = 1 /\ lastInspect'.defects = <<>>
           /\ ~lastInspect'.threw) =>
          /\ lastStageA = [code |-> currentCode, defects |-> <<>>, threw |-> FALSE]
          /\ healingStatus' = "working"
          /\ ~isHealing'
          /\ completed' = <<currentCode>>
          /\ currentCode = attemptHistory[1].result
          /\ Len(attemptHistory') = 1
          /\ attemptHistory'[1].success
          /\ attemptHistory'[1].attemptNumber = 1
          /\ attemptHistory'[1].strategy = "explain_and_fix"
          /\ effectPending' = "none" /\ timers' = <<>> /\ pendingHeals' = <<>>]_vars

C16_Witness ==
  /\ initialCode = <<>>
  /\ healingStatus = "working"
  /\ completed = <<GoodDoc>>
  /\ Len(attemptHistory) = 1
  /\ attemptHistory[1].success
  /\ attemptHistory[1].strategy = "explain_and_fix"
  /\ attemptHistory[1].errors = <<IncompleteCodeError>>
  /\ Quiescent

\* C17: the inspection of the rendered document never throws: whatever the
\* iframe holds, it returns a defect list.
C17_InspectionNeverThrows == ~lastInspect.threw

(***************************************************************************)
(* The detector used directly: a caller that holds an ErrorDetector and an  *)
(* iframe, sets the iframe's srcDoc and calls monitorIframe as it likes.     *)
(***************************************************************************)
DetectorInit ==
  /\ initialCode \in {GoodDoc, UnclosedDoc}
  /\ currentCode = initialCode
  /\ isHealing = FALSE
  /\ healingStatus = ""
  /\ errors = <<>>
  /\ fixAttempts = "initial"
  /\ attemptCount = 0
  /\ effectPending = "none"
  /\ timers = <<>>
  /\ completed = <<>>
  /\ attemptHistory = <<>>
  /\ pendingHeals = <<>>
  /\ invokeLog = <<>>
  /\ healOutcome = NoOutcome
  /\ apiCalls = 0
  /\ errorLog = <<>>
  /\ iframe = FALSE
  /\ loadListeners = 0
  /\ errorListeners = 0
  /\ surfaceDoc = NoDoc
  /\ surfaceLoaded = FALSE
  /\ lastStageA = NoCheck
  /\ lastInspect = NoCheck
  /\ now = 0
  /\ clears = 0
  /\ unheard = 0
  /\ raisedBy = <<>>

\* monitorIframe(iframe), always with the same iframe element
ApiMonitorIframe ==
  /\ loadListeners < MaxAttach
  /\ iframe' = TRUE
  /\ loadListeners' = loadListeners + 1
  /\ UNCHANGED <<componentVars, attemptHistory, pendingHeals, invokeLog, healOutcome,
                 apiCalls, errorLog, errorListeners, surfaceVars, lastStageA,
                 lastInspect, auxVars>>

\* the caller gives the iframe another srcDoc
ApiSetSrcDoc(code) ==
  /\ code # currentCode
  /\ currentCode' = code
  /\ UNCHANGED <<initialCode, isHealing, healingStatus, errors, fixAttempts,
                 attemptCount, effectPending, timers, completed, attemptHistory,
                 pendingHeals, invokeLog, healOutcome, apiCalls, detectorVars,
                 surfaceVars, lastStageA, lastInspect, auxVars>>

\* the document raises an error while it is being parsed, before the iframe
\* fires load: the window has only the listeners installed on it so far
SurfaceErrorBeforeLoad ==
  /\ surfaceDoc # NoDoc
  /\ ~surfaceLoaded
  /\ unheard < MaxUnheard
  /\ errorLog' = errorLog \o Repeat(RuntimeError, errorListeners)
  /\ raisedBy' = raisedBy \o Repeat(surfaceDoc, errorListeners)
  /\ unheard' = IF errorListeners = 0 THEN unheard + 1 ELSE unheard
  /\ UNCHANGED <<componentVars, attemptHistory, pendingHeals, invokeLog, healOutcome,
                 apiCalls, iframe, loadListeners, errorListeners, surfaceVars,
                 lastStageA, lastInspect, now, clears>>

DetectorNext ==
  \/ ApiMonitorIframe
  \/ \E code \in {GoodDoc, UnclosedDoc} : ApiSetSrcDoc(code)
  \/ SurfaceNavigate
  \/ SurfaceLoad
  \/ SurfaceError
  \/ SurfaceErrorBeforeLoad
  \/ Tick

DetectorSpec == DetectorInit /\ [][DetectorNext]_vars

\* C18: however often the detector was attached to the iframe, an error the
\* document raises adds exactly one runtime defect to the buffer.
C18_OneDefectPerError ==
  [][SurfaceError =>
       /\ Len(errorLog') = Len(errorLog) + 1
       /\ errorLog'[Len(errorLog')].type = "runtime_error"]_vars

\* C19: without clearHistory the attempt history only grows at its end: no
\* entry is removed or moved, no field of an entry changes except success, and
\* success changes only in the entry that is last when it changes.
C19_HistoryAppendOnly ==
  [][(clears' = clears) =>
       /\ Len(attemptHistory') >= Len(attemptHistory)
       /\ \A i \in 1..Len(attemptHistory) :
            /\ [attemptHistory'[i] EXCEPT !.success = FALSE]
                 = [attemptHistory[i] EXCEPT !.success = FALSE]
            /\ attemptHistory'[i].success # attemptHistory[i].success =>
                 (i = Len(attemptHistory) /\ Len(attemptHistory') = Len(attemptHistory))]_vars

\* two attempts, the first marked while it was last, the second appended after
C19_Witness ==
  /\ clears = 0
  /\ Len(attemptHistory) = 2
  /\ attemptHistory[1].success
  /\ ~attemptHistory[2].success

\* C20: clearHistory leaves an empty history, attempt count 0 and
\* hasReachedMaxAttempts false, and the next healCode call on the cleared
\* engine carries sequence number 1 both into the history and to the service.
C20_ClearStartsFromOne ==
  /\ [][ApiClearHistory =>
          /\ attemptHistory' = <<>>
          /\ getAttemptCount(attemptHistory') = 0
          /\ ~hasReachedMaxAttempts(attemptHistory')]_vars
  /\ [][(clears >= 1 /\ attemptHistory = <<>> /\ pendingHeals = <<>>
           /\ invokeLog' # invokeLog) =>
          /\ invokeLog'[Len(invokeLog')].attempt_number = 1
          /\ pendingHeals'[1].attemptNumber = 1]_vars
  /\ [][(clears >= 1 /\ Len(attemptHistory) = 0 /\ Len(attemptHistory') = 1) =>
          attemptHistory'[1].attemptNumber = 1]_vars

RECURSIVE StackScan(_, _, _)
\* one left-to-right scan with a stack: an opening tag that is not void is
\* pushed, a closing tag removes the nearest open tag of its name from the
\* stack or, if there is none, is noted as unexpected
StackScan(code, stack, unexpected) ==
  IF code = <<>> THEN [stack |-> stack, unexpected |-> unexpected]
  ELSE LET t == Head(code)
       IN  IF t.k = "open" /\ t.n \notin {"br", "hr", "img", "input", "meta", "link"}
           THEN StackScan(Tail(code), Append(stack, t.n), unexpected)
           ELSE IF t.k = "close"
           THEN IF \E i \in 1..Len(stack) : stack[i] = t.n
                THEN StackScan(Tail(code),
                               RemoveAt(stack, CHOOSE i \in 1..Len(stack) :
                                          stack[i] = t.n /\ \A j \in (i+1)..Len(stack) : stack[j] # t.n),
                               unexpected)
                ELSE StackScan(Tail(code), stack, Append(unexpected, t.n))
           ELSE StackScan(Tail(code), stack, unexpected)

\* what the static check reported about tags: the names of the unexpected
\* closing tags in order, and the names listed as unclosed
ReportedUnexpected(ds) ==
  LET u == SelectSeq(ds, LAMBDA d : d.message = "Unexpected closing tag")
  IN  [i \in 1..Len(u) |-> u[i].tags[1]]

ReportedUnclosed(ds) ==
  LET u == SelectSeq(ds, LAMBDA d : d.message = "Unclosed tags")
  IN  IF u = <<>> THEN <<>> ELSE u[1].tags

\* C21: the tag defects of the static check are those of one left-to-right
\* stack scan: one unexpected-closing-tag defect for every closing tag with no
\* open tag of its name on the stack where it occurs, and one unclosed-tags
\* defect listing what is left on the stack.
C21_TagCheckIsStackScan ==
  lastStageA # NoCheck =>
    LET scan == StackScan(lastStageA.code, <<>>, <<>>)
    IN  /\ ReportedUnexpected(lastStageA.defects) = scan.unexpected
        /\ ReportedUnclosed(lastStageA.defects) = scan.stack
        /\ Len(SelectSeq(lastStageA.defects, LAMBDA d : d.message = "Unclosed tags")) <= 1

\* C22: the static check of an empty or too short text returns the single
\* incomplete defect of the short-circuit and nothing else.
C22_ShortTextOneDefect ==
  (lastStageA # NoCheck /\ IsMalformed(lastStageA.code)) =>
    Unstamp(lastStageA.defects) = Unstamp(<<IncompleteCodeError>>)

\* C23: every error the document raises while the detector is attached to
\* its iframe, before the load event as well as after it, adds a runtime
\* defect to the buffer.
C23_EveryErrorRecorded ==
  [][((SurfaceError \/ SurfaceErrorBeforeLoad) /\ iframe) =>
       /\ Len(errorLog') > Len(errorLog)
       /\ errorLog'[Len(errorLog')].type = "runtime_error"]_vars

\* C24: what is removed from the buffer is what the latest read of the buffer
\* returned: when the buffer is emptied, each defect in it is part of the
\* merged list of the latest inspection, made on the code then current.
C24_ClearRemovesWhatWasRead ==
  [][(errorLog # <<>> /\ errorLog' = <<>>) =>
       /\ lastInspect.code = currentCode
       /\ Len(errorLog) <= Len(lastInspect.defects)
       /\ \A i \in 1..Len(errorLog) : lastInspect.defects[i] = errorLog[i]]_vars

\* C25: every runtime defect merged into the validation of a code was raised
\* by the document of that code.
C25_DefectsOfTheSameArtifact ==
  [][TimerFire => \A i \in 1..Len(raisedBy) : raisedBy[i] = Head(timers)]_vars

\* C26: when the initial code passes the static check and the merged
\* inspection finds no defect, that inspection ends the session with
\* "working", the initial code handed to onFixComplete, the attempt history
\* still empty and no call made to the generative service; marking the last
\* attempt on an empty history leaves it empty.
C26_CleanInitialCodeSucceeds ==
  /\ [][(TimerFire /\ attemptHistory = <<>> /\ lastInspect'.defects = <<>>
           /\ ~lastInspect'.threw) =>
          /\ lastStageA = [code |-> initialCode, defects |-> <<>>, threw |-> FALSE]
          /\ healingStatus' = "working"
          /\ ~isHealing'
          /\ completed' = <<initialCode>>
          /\ attemptHistory' = <<>>
          /\ invokeLog' = <<>>
          /\ attemptCount' = 0
          /\ effectPending' = "none" /\ timers' = <<>> /\ pendingHeals' = <<>>]_vars
  /\ [](healingStatus = "working" /\ attemptHistory = <<>> =>
          invokeLog = <<>> /\ completed = <<initialCode>> /\ currentCode = initialCode)
  /\ MarkLast(<<>>) = <<>>

C26_Witness ==
  /\ healingStatus = "working"
  /\ attemptHistory = <<>>
  /\ invokeLog = <<>>
  /\ completed = <<GoodDoc>>
  /\ initialCode = GoodDoc
  /\ lastInspect = [code |-> GoodDoc, defects |-> <<>>, threw |-> FALSE]

\* C27: the code embedded in the prompt of the first attempt is the initial
\* code, the code embedded in the prompt of each later attempt is the result
\* recorded for the attempt before it, and the defects given to an attempt are
\* those the validation of that same code produced: the short-circuit defect,
\* the defects of the static check, or the merged list of the inspection.
C27_ArtifactLineage ==
  /\ [](\A k \in 1..Len(attemptHistory) :
          attemptHistory[k].prompt.brokenCode =
            IF k = 1 THEN initialCode ELSE attemptHistory[k-1].result)
  /\ [](\A i \in 1..Len(pendingHeals) :
          pendingHeals[i].fixPrompt.brokenCode =
            IF attemptHistory = <<>> THEN initialCode
            ELSE attemptHistory[Len(attemptHistory)].result)
  /\ [][invokeLog' # invokeLog =>
          LET call == pendingHeals'[Len(pendingHeals')]
              c == call.fixPrompt.brokenCode
          IN  /\ c = currentCode
              /\ call.fixPrompt.errorSummary = call.errors
              /\ IF c = <<>> \/ CodeLength(c) < 50
                 THEN call.errors = <<IncompleteCodeError>>
                 ELSE /\ lastStageA'.code = c
                      /\ IF lastStageA'.defects # <<>>
                         THEN call.errors = lastStageA'.defects
                         ELSE /\ lastInspect'.code = c
                              /\ call.errors = lastInspect'.defects]_vars

C27_Witness ==
  /\ Len(attemptHistory) = 2
  /\ attemptHistory[1].prompt.brokenCode = initialCode
  /\ attemptHistory[1].result # initialCode
  /\ attemptHistory[2].prompt.brokenCode = attemptHistory[1].result
  /\ attemptHistory[2].errors = lastStageA.defects
  /\ lastStageA.code = attemptHistory[1].result

\* C28: on every healCode call the attempt_number given to the generative
\* service is the ordinal given to healCode, which is also the number in the
\* prompt and the number recorded with the attempt.
C28_ServiceGetsTheOrdinal ==
  [][invokeLog' # invokeLog =>
       LET call == pendingHeals'[Len(pendingHeals')]
           args == invokeLog'[Len(invokeLog')]
       IN  /\ args.prompt.attemptNumber = call.attemptNumber
           /\ FixAttempt(call, <<>>).attemptNumber = call.attemptNumber
           /\ args.attempt_number = call.attemptNumber]_vars

\* the fenced block of a response: from its first opening fence to the
\* nearest closing fence after it
HasFencedBlock(response) ==
  \E i, j \in 1..Len(response) :
    i < j /\ response[i] = FenceOpen /\ response[j] = FenceClose

FencedBlock(response) ==
  LET i == CHOOSE a \in 1..Len(response) :
             /\ response[a] = FenceOpen
             /\ \A b \in 1..(a-1) : response[b] # FenceOpen
      j == CHOOSE a \in (i+1)..Len(response) :
             /\ response[a] = FenceClose
             /\ \A b \in (i+1)..(a-1) : response[b] # FenceClose
  IN  SubSeq(response, i + 1, j - 1)

\* C29: the code healCode returns and records as the attempt's result is the
\* content of the response's fenced block if it has one and the whole
\* response otherwise; in both cases the call is fulfilled.
C29_FencedBlockOrWholeResponse ==
  [][\A i \in 1..Len(pendingHeals) : \A response \in ApiResponses :
       GenReturn(i, response) =>
         LET expected == IF HasFencedBlock(response) THEN FencedBlock(response)
                         ELSE response
         IN  /\ Len(attemptHistory') = Len(attemptHistory) + 1
             /\ attemptHistory'[Len(attemptHistory')].result = expected
             /\ healOutcome' = Fulfilled(expected)]_vars

\* a response kept whole, opening fence included, then a block extracted
C29_Witness ==
  /\ Len(attemptHistory) = 2
  /\ attemptHistory[1].result = <<FenceOpen>> \o GoodDoc
  /\ attemptHistory[2].result = GoodDoc
  /\ healOutcome = Fulfilled(GoodDoc)

====
